---- MODULE Spec2Model ----
(***************************************************************************)
(* Business-plan document generation and versioning (andresprimera/aire).  *)
(*                                                                         *)
(* The model follows the createBusinessPlanDocx tool of the business       *)
(* agent route (client variant, with versioning), the older user-branding  *)
(* variant of the same tool, the document encoder                          *)
(* createBusinessPlanFromTemplate, the Client and GeneratedFile            *)
(* collections and the TTL index of GeneratedFile.                         *)
(*                                                                         *)
(* Text is modelled as a sequence of one-character strings so that         *)
(* startsWith, replace, toLowerCase and template literals are computed.    *)
(* An absent (undefined/null) string is the empty sequence: every use in   *)
(* the source goes through a truthiness test (||, if (x)) that treats ""   *)
(* and undefined alike.                                                    *)
(***************************************************************************)
EXTENDS Integers, Sequences, FiniteSets, TLC

(***************************************************************************)
(* Bounds of the model.                                                    *)
(***************************************************************************)
MaxRequests == 2
MaxSerialRequests == 3
MaxSaves == 1
MaxUserRequests == 1
MaxBrandingSaves == 1
MaxTicks == 1
TickSeconds == 86400
MaxSections == 2
MaxSnapshot == 2
MaxFileRequests == 1
MaxBrandingWrites == 2
MaxHistoryRequests == 1
MaxHistoryWrites == 1
MaxFrameRequests == 2

(***************************************************************************)
(* Characters and text helpers.                                            *)
(***************************************************************************)
UpperChars == <<"A","B","C","D","E","F","G","H","I","J","K","L","M",
                "N","O","P","Q","R","S","T","U","V","W","X","Y","Z">>
LowerChars == <<"a","b","c","d","e","f","g","h","i","j","k","l","m",
                "n","o","p","q","r","s","t","u","v","w","x","y","z">>
DigitChars == <<"0","1","2","3","4","5","6","7","8","9">>

IsUpper(ch) == \E i \in 1..26 : UpperChars[i] = ch
IsLower(ch) == \E i \in 1..26 : LowerChars[i] = ch
IsDigit(ch) == \E i \in 1..10 : DigitChars[i] = ch

\* /[a-z0-9]/i
IsAlnum(ch) == IsUpper(ch) \/ IsLower(ch) \/ IsDigit(ch)

\* String.prototype.toLowerCase on one character
ToLowerChar(ch) ==
    IF IsUpper(ch) THEN LowerChars[CHOOSE i \in 1..26 : UpperChars[i] = ch]
    ELSE ch

\* String.prototype.startsWith
StartsWith(s, t) == Len(t) <= Len(s) /\ SubSeq(s, 1, Len(t)) = t

\* decimal rendering of a non-negative integer inside a template literal
RECURSIVE Decimal(_)
Decimal(n) ==
    IF n < 10 THEN <<DigitChars[n + 1]>>
    ELSE Decimal(n \div 10) \o <<DigitChars[(n % 10) + 1]>>

\* s.replace("#", ""): removes the first "#" only
RemoveFirstHash(s) ==
    IF \E i \in 1..Len(s) : s[i] = "#"
    THEN LET k == CHOOSE i \in 1..Len(s) :
                     s[i] = "#" /\ \A j \in 1..(i - 1) : s[j] # "#"
         IN SubSeq(s, 1, k - 1) \o SubSeq(s, k + 1, Len(s))
    ELSE s

\* truthiness of a JS string value (undefined, null and "" are falsy)
Truthy(s) == s # <<>>

\* a || b on strings
OrElse(a, b) == IF Truthy(a) THEN a ELSE b

(***************************************************************************)
(* Version Namer: createBusinessPlanDocx.execute, step 2.                  *)
(***************************************************************************)
\* a reading of the version that lets an absent version count as 0
VersionAsStored(v) == v

\* d.version || 1   (an absent version is stored as 0 in the model)
VersionOrOne(v) == IF v = 0 THEN 1 ELSE v

\* the name with a trailing " (vN)" suffix stripped
BaseTitle(name) ==
    LET IsSuffixAt(k) ==
            /\ k >= 1 /\ k + 4 <= Len(name)
            /\ SubSeq(name, k, k + 2) = <<" ", "(", "v">>
            /\ name[Len(name)] = ")"
            /\ \A j \in (k + 3)..(Len(name) - 1) : IsDigit(name[j])
    IN IF \E k \in 1..Len(name) : IsSuffixAt(k)
       THEN SubSeq(name, 1, (CHOOSE k \in 1..Len(name) : IsSuffixAt(k)) - 1)
       ELSE name

\* a filter that counts generated entries only
SameTitleGeneratedDocs(docs, title) ==
    SelectSeq(docs, LAMBDA d : StartsWith(d.name, title) /\ d.fileId # 0)

\* a filter that compares base titles instead of testing the prefix
SameBaseTitleDocs(docs, title) ==
    SelectSeq(docs, LAMBDA d : BaseTitle(d.name) = title)

\* client.documents.filter((d) => d.name.startsWith(title))
SameTitleDocs(docs, title) ==
    SelectSeq(docs, LAMBDA d : StartsWith(d.name, title))

\* Math.max(...numbers) of a non-empty set
MaxOf(S) == CHOOSE m \in S : \A x \in S : x <= m

\* a version namer that forgets to increment the maximum
NextVersionNoIncrement(docs, title) ==
    LET same == SameTitleDocs(docs, title)
    IN IF Len(same) > 0
       THEN MaxOf({VersionOrOne(same[i].version) : i \in 1..Len(same)})
       ELSE 1

NextVersionOf(docs, title) ==
    LET same == SameTitleDocs(docs, title)
    IN IF Len(same) > 0
       THEN MaxOf({VersionOrOne(same[i].version) : i \in 1..Len(same)}) + 1
       ELSE 1

\* a display title without the space before the suffix
VersionedTitleNoSpace(title, v) == title \o <<"(", "v">> \o Decimal(v) \o <<")">>

\* `${title} (v${nextVersion})`
VersionedTitle(title, v) == title \o <<" ", "(", "v">> \o Decimal(v) \o <<")">>

\* a derivation that forgets toLowerCase
DocxFilenameNoLower(name) ==
    [i \in 1..Len(name) |-> IF IsAlnum(name[i]) THEN name[i] ELSE "_"]
    \o <<".", "d", "o", "c", "x">>

\* `${name.replace(/[^a-z0-9]/gi, "_").toLowerCase()}.docx`
DocxFilename(name) ==
    [i \in 1..Len(name) |->
        ToLowerChar(IF IsAlnum(name[i]) THEN name[i] ELSE "_")]
    \o <<".", "d", "o", "c", "x">>

(***************************************************************************)
(* Document Encoder: createBusinessPlanFromTemplate.                       *)
(***************************************************************************)
DefaultPrimaryColor == <<"1", "E", "4", "0", "A", "F">>
DefaultSecondaryColor == <<"3", "B", "8", "2", "F", "6">>

DataImagePrefix == <<"d", "a", "t", "a", ":", "i", "m", "a", "g", "e", "/">>
Base64Marker == <<";", "b", "a", "s", "e", "6", "4", ",">>

\* \w of a JS regular expression
IsWordChar(ch) == IsAlnum(ch) \/ ch = "_"

\* length of the match of /^data:image\/(\w+);base64,/ in s, 0 when none
DataUrlMatchLen(s) ==
    LET n == Len(DataImagePrefix)
        m == Len(Base64Marker)
        Fits(k) == /\ n + k + m <= Len(s)
                   /\ \A j \in (n + 1)..(n + k) : IsWordChar(s[j])
                   /\ SubSeq(s, n + k + 1, n + k + m) = Base64Marker
    IN IF StartsWith(s, DataImagePrefix) /\ \E k \in 1..Len(s) : Fits(k)
       THEN n + (CHOOSE k \in 1..Len(s) : Fits(k)) + m
       ELSE 0

\* dataUrlMatch[1].toLowerCase()
DataUrlFormat(s) ==
    LET n == Len(DataImagePrefix)
        e == DataUrlMatchLen(s) - Len(Base64Marker)
    IN [i \in 1..(e - n) |-> ToLowerChar(s[n + i])]

\* imageType: "png" unless the data URL names jpeg, png, gif or bmp
ImageTypeOf(logoData) ==
    IF DataUrlMatchLen(logoData) = 0 THEN "png"
    ELSE LET f == DataUrlFormat(logoData)
         IN IF f = <<"j", "p", "e", "g">> THEN "jpg"
            ELSE IF f = <<"p", "n", "g">> THEN "png"
            ELSE IF f = <<"g", "i", "f">> THEN "gif"
            ELSE IF f = <<"b", "m", "p">> THEN "bmp"
            ELSE "png"

\* logoData.replace(/^data:image\/\w+;base64,/, "")
StripDataUrl(logoData) ==
    SubSeq(logoData, DataUrlMatchLen(logoData) + 1, Len(logoData))

IsBase64Char(ch) == IsAlnum(ch) \/ ch \in {"+", "/", "-", "_"}

\* Buffer.from(base64Data, "base64"): characters outside the alphabet are
\* skipped and decoding stops at the first "="; the decoded bytes are
\* represented by the sextet characters they are made of
RECURSIVE Base64Decode(_)
Base64Decode(s) ==
    IF s = <<>> \/ Head(s) = "=" THEN <<>>
    ELSE IF IsBase64Char(Head(s)) THEN <<Head(s)>> \o Base64Decode(Tail(s))
    ELSE Base64Decode(Tail(s))

IsSpaceChar(ch) == ch \in {" ", "\t", "\n", "\r"}

\* a filter that forgets the trim
NonBlankNoTrim(line) == Len(line) > 0

\* p.trim().length > 0
NonBlank(line) == \E i \in 1..Len(line) : ~IsSpaceChar(line[i])

\* content.split("\n")
RECURSIVE SplitLines(_)
SplitLines(s) ==
    IF \E i \in 1..Len(s) : s[i] = "\n"
    THEN LET k == CHOOSE i \in 1..Len(s) :
                     s[i] = "\n" /\ \A j \in 1..(i - 1) : s[j] # "\n"
         IN <<SubSeq(s, 1, k - 1)>> \o SplitLines(SubSeq(s, k + 1, Len(s)))
    ELSE <<s>>

Block(kind, rank, text, imageType) ==
    [kind |-> kind, rank |-> rank, text |-> text, imageType |-> imageType]

\* a mapping that clamps the level into 1..3 instead of testing equality
HeadingRankClamped(level) ==
    IF level = {} THEN 1
    ELSE LET n == CHOOSE x \in level : TRUE
         IN IF n >= 3 THEN 3 ELSE IF n = 2 THEN 2 ELSE 1

\* section.level === 2 ? HEADING_2 : section.level === 3 ? HEADING_3 : HEADING_1
\* (level is {} when missing, {n} otherwise)
HeadingRank(level) ==
    IF level = {2} THEN 2 ELSE IF level = {3} THEN 3 ELSE 1

SectionBlocks(section) ==
    LET lines == SelectSeq(SplitLines(section.content), NonBlank)
    IN <<Block("heading", HeadingRank(section.level), section.title, "")>>
       \o [i \in 1..Len(lines) |-> Block("paragraph", 0, lines[i], "")]

RECURSIVE AllSectionBlocks(_)
AllSectionBlocks(sections) ==
    IF sections = <<>> THEN <<>>
    ELSE SectionBlocks(Head(sections)) \o AllSectionBlocks(Tail(sections))

\* a logo step that pushes an image paragraph even when there is no logo data
LogoBlocksPlaceholder(logoData, imageOk) ==
    IF imageOk \/ ~Truthy(logoData)
    THEN <<Block("image", 0, Base64Decode(StripDataUrl(logoData)),
                 ImageTypeOf(logoData))>>
    ELSE <<>>

\* a logo step without the try/catch: the image is pushed whenever there is
\* logo data
LogoBlocksUnguarded(logoData, imageOk) ==
    IF Truthy(logoData)
    THEN <<Block("image", 0, Base64Decode(StripDataUrl(logoData)),
                 ImageTypeOf(logoData))>>
    ELSE <<>>

\* the logo paragraph: pushed when logoData is truthy and ImageRun accepts
\* the image (imageOk); a throw while decoding or adding is caught
LogoBlocks(logoData, imageOk) ==
    IF Truthy(logoData) /\ imageOk
    THEN <<Block("image", 0, Base64Decode(StripDataUrl(logoData)),
                 ImageTypeOf(logoData))>>
    ELSE <<>>

\* an encoder that pushes the title before the logo
CreateTitleFirst(title, sections, logoData, primaryColor, secondaryColor, imageOk) ==
    [blocks |-> <<Block("title", 0, title, "")>>
                \o LogoBlocks(logoData, imageOk)
                \o AllSectionBlocks(sections),
     heading1Color |-> OrElse(RemoveFirstHash(primaryColor), DefaultPrimaryColor),
     heading2Color |-> OrElse(RemoveFirstHash(secondaryColor), DefaultSecondaryColor)]

\* the Document handed to Packer.toBuffer
CreateBusinessPlanFromTemplate(title, sections, logoData, primaryColor, secondaryColor, imageOk) ==
    [blocks |-> LogoBlocks(logoData, imageOk)
                \o <<Block("title", 0, title, "")>>
                \o AllSectionBlocks(sections),
     heading1Color |-> OrElse(RemoveFirstHash(primaryColor), DefaultPrimaryColor),
     heading2Color |-> OrElse(RemoveFirstHash(secondaryColor), DefaultSecondaryColor)]

(***************************************************************************)
(* Inputs the requests are drawn from.                                     *)
(***************************************************************************)
NoSession == "none"
UserIds == {"u1", "u2"}
\* the callers of createBusinessPlanDocx: nobody, or the owner of client c1
Sessions == {NoSession, "u1"}
ClientIds == {"c1", "c2"}

\* "", "Plan"
Titles == {<<>>, <<"P", "l", "a", "n">>}

\* [{title: "S", content: "a\n\nb", level: 2}]
SectionInputs ==
    {<<[title |-> <<"S">>, content |-> <<"a", "\n", "\n", "b">>, level |-> {2}]>>}

\* fs.readFileSync("public/logo_aire.png").toString("base64")
DefaultLogoBase64 == <<"i", "V", "B", "O">>

NoBranding == [logo |-> <<>>, primaryColor |-> <<>>, secondaryColor |-> <<>>]

DocxContentType ==
    "application/vnd.openxmlformats-officedocument.wordprocessingml.document"

\* GeneratedFileSchema.createdAt.expires
ExpireAfterSeconds == 86400

\* two tool calls can be in flight at once
Procs == {1, 2}

(***************************************************************************)
(* State.                                                                  *)
(***************************************************************************)
VARIABLES
    clients,     \* Client collection: _id -> [userId, branding, documents]
    files,       \* GeneratedFile collection: _id -> [filename, contentType, data, createdAt]
    nextFileId,  \* next fresh ObjectId of GeneratedFile
    now,         \* wall clock, in seconds
    pc,          \* position of each createBusinessPlanDocx.execute call
    req,         \* its arguments and session
    loc,         \* its local variables
    result,      \* the value it returned
    started,     \* number of executions started so far
    saves,       \* number of saveClientDocument calls so far
    endedAt,     \* history variable: the await at which each finished call ended
    defaultLogoReadable,  \* whether public/logo_aire.png can be read
    imageRunAccepts,      \* the logo data for which new ImageRun(...) does not throw
    users,       \* User collection: _id -> [logo, primaryColor, secondaryColor]
    upc,         \* position of the user-branding createBusinessPlanDocx.execute call
    ureq,        \* its arguments and session
    uloc,        \* its local variables
    uresult,     \* the value it returned
    ustarted,    \* number of such executions started so far
    usaves,      \* number of saveBranding calls so far
    bcall,       \* arguments and session of the latest branding write
    bwrites,     \* number of branding writes so far
    gresp,       \* the latest response of GET /api/files/[fileId]
    encArgs,     \* arguments of the latest direct call of createBusinessPlanFromTemplate
    encOut,      \* what that call returned or threw
    namerArgs,   \* history snapshot and title of the latest version computation
    namerOut     \* the version, display title and filename it derived

env == <<defaultLogoReadable, imageRunAccepts>>

\* the state of the user-branding variant of the tool
uvars == <<users, upc, ureq, uloc, uresult, ustarted, usaves>>

\* the state of the branding writes, of the retrieval endpoint and of the
\* direct calls of the encoder and of the version namer
tvars == <<bcall, bwrites, gresp, encArgs, encOut, namerArgs, namerOut>>

vars == <<clients, files, nextFileId, now, pc, req, loc, result, started, saves,
          endedAt, env, uvars, tvars>>

NoReq == [session |-> NoSession, clientId |-> "c1", title |-> <<>>, sections |-> <<>>]
NoDoc == [blocks |-> <<>>, heading1Color |-> <<>>, heading2Color |-> <<>>]
NoLoc == [nextVersion |-> 0, versionedTitle |-> <<>>, finalFilename |-> <<>>,
          finalLogoData |-> <<>>, primaryColor |-> <<>>, secondaryColor |-> <<>>,
          buffer |-> NoDoc, fileId |-> 0, fileCreatedAt |-> 0]
Pending == [pending |-> TRUE]

NoUserReq == [session |-> NoSession, title |-> <<>>, sections |-> <<>>,
              primaryColor |-> <<>>, secondaryColor |-> <<>>]
NoUserLoc == [finalPrimaryColor |-> <<>>, finalSecondaryColor |-> <<>>,
              finalLogoData |-> <<>>, buffer |-> NoDoc]

NoBrandingCall == [tool |-> "none", session |-> NoSession, target |-> "none",
                   logo |-> <<>>, primaryColor |-> <<>>, secondaryColor |-> <<>>]
NoResponse == [ref |-> <<>>, status |-> 0, text |-> "", threw |-> "", data |-> NoDoc,
               contentType |-> "", disposition |-> <<>>]
NoEncArgs == [title |-> <<>>, sections |-> <<>>, logoData |-> <<>>,
              primaryColor |-> <<>>, secondaryColor |-> <<>>, imageOk |-> FALSE]
NoEncOut == [threw |-> FALSE, message |-> "", doc |-> NoDoc]
NoNamerArgs == [documents |-> <<>>, title |-> <<>>]
NoNamerOut == [nextVersion |-> 0, versionedTitle |-> <<>>, finalFilename |-> <<>>,
               rederived |-> <<>>]

\* `${appUrl}/api/files/${generatedFile._id}`
DownloadUrl(id) == <<"/", "a", "p", "i", "/", "f", "i", "l", "e", "s", "/">> \o Decimal(id)

\* Client.create({ userId, name, industry, description, website,
\*                 branding: {}, documents: [] }) with the optional details absent
NewClient(userId) ==
    [userId |-> userId, industry |-> <<>>, description |-> <<>>, website |-> <<>>,
     branding |-> NoBranding, documents |-> <<>>]

\* the collections after createClient for each client, with the given owners
\* and branding, no tool call in flight
InitCollections(owner, branding) ==
    /\ clients = [c \in ClientIds |-> [NewClient(owner[c]) EXCEPT !.branding = branding]]
    /\ files = <<>>
    /\ nextFileId = 1
    /\ now = 0
    /\ pc = [p \in Procs |-> "idle"]
    /\ req = [p \in Procs |-> NoReq]
    /\ loc = [p \in Procs |-> NoLoc]
    /\ result = [p \in Procs |-> Pending]
    /\ started = 0
    /\ saves = 0
    /\ endedAt = [p \in Procs |-> "none"]
    /\ users = [u \in UserIds |-> NoBranding]
    /\ upc = "idle"
    /\ ureq = NoUserReq
    /\ uloc = NoUserLoc
    /\ uresult = Pending
    /\ ustarted = 0
    /\ usaves = 0
    /\ bcall = NoBrandingCall
    /\ bwrites = 0
    /\ gresp = NoResponse
    /\ encOut = NoEncOut
    /\ namerOut = NoNamerOut
    /\ defaultLogoReadable \in BOOLEAN
    /\ imageRunAccepts \in SUBSET {DefaultLogoBase64}
    /\ ~defaultLogoReadable => imageRunAccepts = {DefaultLogoBase64}

\* one client for each of the two users, no branding saved
InitProgram ==
    InitCollections([c \in ClientIds |-> IF c = "c1" THEN "u1" ELSE "u2"], NoBranding)

Init ==
    /\ InitProgram
    /\ encArgs = NoEncArgs
    /\ namerArgs = NoNamerArgs

(***************************************************************************)
(* createBusinessPlanDocx.execute (client variant), one action per await.  *)
(***************************************************************************)
\* the tool is called with arguments that passed the zod inputSchema
Start(p, limit) ==
    /\ pc[p] = "idle"
    /\ started < limit
    /\ \E s \in Sessions, c \in ClientIds, t \in Titles, secs \in SectionInputs :
          req' = [req EXCEPT ![p] = [session |-> s, clientId |-> c,
                                     title |-> t, sections |-> secs]]
    /\ pc' = [pc EXCEPT ![p] = "session"]
    /\ started' = started + 1
    /\ UNCHANGED <<clients, files, nextFileId, now, loc, result, saves, endedAt, env, tvars, uvars>>

Invoke(p) == Start(p, MaxRequests)

\* a call made while no other execution is in flight
InvokeSerial(p) ==
    /\ \A q \in Procs : pc[q] = "idle"
    /\ Start(p, MaxSerialRequests)

\* catch (error) { return { success: false, error: "Failed to create DOCX" } }
Caught(p) ==
    /\ pc' = [pc EXCEPT ![p] = "done"]
    /\ endedAt' = [endedAt EXCEPT ![p] = pc[p]]
    /\ loc' = [loc EXCEPT ![p] = NoLoc]
    /\ result' = [result EXCEPT ![p] =
                     [success |-> FALSE, error |-> "Failed to create DOCX"]]

\* getServerSession, the session test and connectDB
GetSession(p) ==
    /\ pc[p] = "session"
    /\ \/ /\ req[p].session = NoSession
          /\ pc' = [pc EXCEPT ![p] = "done"]
          /\ result' = [result EXCEPT ![p] = [error |-> "Unauthorized"]]
          /\ endedAt' = [endedAt EXCEPT ![p] = pc[p]]
          /\ UNCHANGED loc
       \/ /\ req[p].session # NoSession
          /\ pc' = [pc EXCEPT ![p] = "findClient"]
          /\ UNCHANGED <<result, loc, endedAt>>
       \/ Caught(p)
    /\ UNCHANGED <<clients, files, nextFileId, now, req, started, saves, env, tvars, uvars>>

\* a lookup by owner alone, without the _id
FindAnyClientOfUser(clientId, userId) ==
    {clients[c] : c \in {d \in ClientIds : clients[d].userId = userId}}

\* a lookup by _id alone, without the owner
FindOneClientById(clientId, userId) == {clients[clientId]}

\* Client.findOne({ _id: clientId, userId: session.user.id })
FindOneClient(clientId, userId) ==
    IF clients[clientId].userId = userId THEN {clients[clientId]} ELSE {}

\* steps 1 to 3: read the client, determine the version, set up the logo
FindClient(p) ==
    /\ pc[p] = "findClient"
    /\ \/ /\ FindOneClient(req[p].clientId, req[p].session) = {}
          /\ pc' = [pc EXCEPT ![p] = "done"]
          /\ result' = [result EXCEPT ![p] = [error |-> "Client not found"]]
          /\ endedAt' = [endedAt EXCEPT ![p] = pc[p]]
          /\ UNCHANGED loc
       \/ \E client \in FindOneClient(req[p].clientId, req[p].session) :
             LET nextVersion == NextVersionOf(client.documents, req[p].title)
                 versionedTitle == VersionedTitle(req[p].title, nextVersion)
                 finalLogoData ==
                     IF Truthy(client.branding.logo) THEN client.branding.logo
                     ELSE IF defaultLogoReadable THEN DefaultLogoBase64
                     ELSE <<>>
             IN /\ loc' = [loc EXCEPT ![p] =
                              [NoLoc EXCEPT
                                  !.nextVersion = nextVersion,
                                  !.versionedTitle = versionedTitle,
                                  !.finalFilename = DocxFilename(versionedTitle),
                                  !.finalLogoData = finalLogoData,
                                  !.primaryColor = client.branding.primaryColor,
                                  !.secondaryColor = client.branding.secondaryColor]]
                /\ pc' = [pc EXCEPT ![p] = "encode"]
                /\ UNCHANGED <<result, endedAt>>
       \/ Caught(p)
    /\ UNCHANGED <<clients, files, nextFileId, now, req, started, saves, env, tvars, uvars>>

\* step 4: await createBusinessPlanFromTemplate(...)
Encode(p) ==
    /\ pc[p] = "encode"
    /\ \/ /\ loc' = [loc EXCEPT ![p].buffer =
                           CreateBusinessPlanFromTemplate(
                               loc[p].versionedTitle, req[p].sections,
                               loc[p].finalLogoData, loc[p].primaryColor,
                               loc[p].secondaryColor,
                               loc[p].finalLogoData \in imageRunAccepts)]
          /\ pc' = [pc EXCEPT ![p] = "persist"]
          /\ UNCHANGED <<result, endedAt>>
       \/ Caught(p)
    /\ UNCHANGED <<clients, files, nextFileId, now, req, started, saves, env, tvars, uvars>>

\* GeneratedFile.create
CreateFile(filename, data) ==
    files @@ (nextFileId :> [filename |-> filename,
                             contentType |-> DocxContentType,
                             data |-> data,
                             createdAt |-> now])

\* a persist step that does not await GeneratedFile.create: the id is taken
\* but the append starts before the artifact is written
PersistNotAwaited(p) ==
    /\ pc[p] = "persist"
    /\ nextFileId' = nextFileId + 1
    /\ loc' = [loc EXCEPT ![p].fileId = nextFileId,
                           ![p].fileCreatedAt = now]
    /\ pc' = [pc EXCEPT ![p] = "append"]
    /\ UNCHANGED <<files, clients, now, req, started, saves, result, endedAt, env, tvars, uvars>>

\* a persist step that swallows the failure and goes on to the history append
PersistSwallowsFailure(p) ==
    /\ pc[p] = "persist"
    /\ \/ /\ files' = CreateFile(loc[p].finalFilename, loc[p].buffer)
          /\ nextFileId' = nextFileId + 1
          /\ loc' = [loc EXCEPT ![p].fileId = nextFileId,
                                 ![p].fileCreatedAt = now]
       \/ UNCHANGED <<files, nextFileId, loc>>
    /\ pc' = [pc EXCEPT ![p] = "append"]
    /\ UNCHANGED <<clients, now, req, started, saves, result, endedAt, env, tvars, uvars>>

\* a persist step whose failure leaves the written artifact behind
PersistLeavesFileOnFailure(p) ==
    /\ pc[p] = "persist"
    /\ files' = CreateFile(loc[p].finalFilename, loc[p].buffer)
    /\ nextFileId' = nextFileId + 1
    /\ \/ /\ loc' = [loc EXCEPT ![p].fileId = nextFileId,
                                 ![p].fileCreatedAt = now]
          /\ pc' = [pc EXCEPT ![p] = "append"]
          /\ UNCHANGED <<result, endedAt>>
       \/ Caught(p)
    /\ UNCHANGED <<clients, now, req, started, saves, env, tvars, uvars>>

\* step 5: await GeneratedFile.create(...)
Persist(p) ==
    /\ pc[p] = "persist"
    /\ \/ /\ files' = CreateFile(loc[p].finalFilename, loc[p].buffer)
          /\ nextFileId' = nextFileId + 1
          /\ loc' = [loc EXCEPT ![p].fileId = nextFileId,
                                 ![p].fileCreatedAt = now]
          /\ pc' = [pc EXCEPT ![p] = "append"]
          /\ UNCHANGED <<result, endedAt>>
       \/ Caught(p) /\ UNCHANGED <<files, nextFileId>>
    /\ UNCHANGED <<clients, now, req, started, saves, env, tvars, uvars>>

\* an entry named by the requested title, without the version suffix
HistoryEntryBareTitle(p) ==
    [name |-> req[p].title,
     type |-> "docx",
     fileId |-> loc[p].fileId,
     version |-> loc[p].nextVersion,
     content |-> "Generated Business Plan"]

\* an entry that is not linked to the generated file
HistoryEntryUnlinked(p) ==
    [name |-> loc[p].versionedTitle,
     type |-> "docx",
     fileId |-> 0,
     version |-> loc[p].nextVersion,
     content |-> "Generated Business Plan"]

\* the subdocument pushed in step 6 (uploadedAt, which nothing reads, is left out)
HistoryEntry(p) ==
    [name |-> loc[p].versionedTitle,
     type |-> "docx",
     fileId |-> loc[p].fileId,
     version |-> loc[p].nextVersion,
     content |-> "Generated Business Plan"]

\* a write of the whole array in which the new entry takes the last place
PushDocumentLastWriterWins(docs, entry) ==
    IF Len(docs) > 0 THEN [docs EXCEPT ![Len(docs)] = entry] ELSE <<entry>>

\* a write that puts the new entry in front
PushDocumentFront(docs, entry) == <<entry>> \o docs

\* a conditional write: push only when no entry has that name yet
PushDocumentIfAbsent(docs, entry) ==
    IF \E i \in 1..Len(docs) : docs[i].name = entry.name THEN docs
    ELSE Append(docs, entry)

\* Client.updateOne({ _id }, { $push: { documents: entry } })
PushDocument(docs, entry) == Append(docs, entry)

\* step 6: await Client.updateOne(...), then the success result
AppendHistory(p) ==
    /\ pc[p] = "append"
    /\ \/ /\ clients' = [clients EXCEPT ![req[p].clientId].documents =
                            PushDocument(@, HistoryEntry(p))]
          /\ pc' = [pc EXCEPT ![p] = "done"]
          /\ result' = [result EXCEPT ![p] =
                           [success |-> TRUE,
                            downloadUrl |-> DownloadUrl(loc[p].fileId),
                            filename |-> loc[p].finalFilename,
                            version |-> loc[p].nextVersion,
                            message |-> <<"Business plan created: ">>
                                        \o loc[p].versionedTitle]]
          /\ loc' = [loc EXCEPT ![p] = NoLoc]
          /\ endedAt' = [endedAt EXCEPT ![p] = pc[p]]
       \/ Caught(p) /\ UNCHANGED clients
    /\ UNCHANGED <<files, nextFileId, now, req, started, saves, env, tvars, uvars>>

\* the returned value has been handed to the tool loop; the slot is free again
Return(p) ==
    /\ pc[p] = "done"
    /\ pc' = [pc EXCEPT ![p] = "idle"]
    /\ req' = [req EXCEPT ![p] = NoReq]
    /\ loc' = [loc EXCEPT ![p] = NoLoc]
    /\ result' = [result EXCEPT ![p] = Pending]
    /\ endedAt' = [endedAt EXCEPT ![p] = "none"]
    /\ UNCHANGED <<clients, files, nextFileId, now, started, saves, env, tvars, uvars>>

(***************************************************************************)
(* saveClientDocument.execute: one findOneAndUpdate with $push.            *)
(***************************************************************************)
SavedNames == {<<"P", "l", "a", "n">>}

SaveClientDocument ==
    /\ saves < MaxSaves
    /\ saves' = saves + 1
    /\ \E s \in Sessions, c \in ClientIds, name \in SavedNames :
          IF FindOneClient(c, s) # {}
          THEN clients' = [clients EXCEPT ![c].documents =
                              PushDocument(@, [name |-> name,
                                               type |-> "text",
                                               fileId |-> 0,
                                               version |-> 1,
                                               content |-> "uploaded"])]
          ELSE UNCHANGED clients
    /\ UNCHANGED <<files, nextFileId, now, pc, req, loc, result, started, endedAt, env, tvars, uvars>>

(***************************************************************************)
(* Time and the TTL index on GeneratedFile.createdAt.                      *)
(***************************************************************************)
Tick ==
    /\ now < MaxTicks * TickSeconds
    /\ DOMAIN files # {}
    /\ now' = now + TickSeconds
    /\ UNCHANGED <<clients, files, nextFileId, pc, req, loc, result, started, saves,
                   endedAt, env, tvars, uvars>>

Expired(f) == now - f.createdAt >= ExpireAfterSeconds

\* the TTL monitor deletes a document whose createdAt is old enough
ExpireFile ==
    /\ \E id \in DOMAIN files :
          /\ Expired(files[id])
          /\ files' = [i \in DOMAIN files \ {id} |-> files[i]]
    /\ UNCHANGED <<clients, nextFileId, now, pc, req, loc, result, started, saves,
                   endedAt, env, tvars, uvars>>

Step(p) ==
    \/ Invoke(p)
    \/ GetSession(p)
    \/ FindClient(p)
    \/ Encode(p)
    \/ Persist(p)
    \/ AppendHistory(p)
    \/ Return(p)

Next ==
    \/ \E p \in Procs : Step(p)
    \/ Tick
    \/ ExpireFile

Spec == Init /\ [][Next]_vars

\* the same system when the tool loop issues one generation at a time
StepSerial(p) ==
    \/ InvokeSerial(p)
    \/ GetSession(p)
    \/ FindClient(p)
    \/ Encode(p)
    \/ Persist(p)
    \/ AppendHistory(p)
    \/ Return(p)

NextSerial ==
    \/ \E p \in Procs : StepSerial(p)
    \/ SaveClientDocument

SpecSerial == Init /\ [][NextSerial]_vars

(***************************************************************************)
(* createBusinessPlanDocx.execute (user-branding variant, with optional    *)
(* color overrides and no versioning), and saveBranding.execute.           *)
(***************************************************************************)
\* callers of the user-branding tools: nobody, user u1, or a session whose
\* user record no longer exists
UserSessions == {NoSession, "u1", "gone"}

\* absent, "#1E40AF", "#ZZZZZZ"
ColorInputs == {<<>>,
                <<"#", "1", "E", "4", "0", "A", "F">>,
                <<"#", "Z", "Z", "Z", "Z", "Z", "Z">>}

\* a stored logo given as a data URL
StoredLogo == DataImagePrefix \o <<"j", "p", "e", "g">> \o Base64Marker \o <<"Q", "Q">>

\* User.findById(id)
FindUserById(id) == IF id \in DOMAIN users THEN {users[id]} ELSE {}

UserInvoke ==
    /\ upc = "idle"
    /\ ustarted < MaxUserRequests
    /\ ustarted' = ustarted + 1
    /\ \E s \in UserSessions, t \in Titles, secs \in SectionInputs,
          pcol \in ColorInputs, scol \in {<<>>, <<"#", "Z", "Z", "Z", "Z", "Z", "Z">>} :
          ureq' = [session |-> s, title |-> t, sections |-> secs,
                   primaryColor |-> pcol, secondaryColor |-> scol]
    /\ upc' = "session"
    /\ UNCHANGED <<clients, files, nextFileId, now, pc, req, loc, result, started,
                   saves, endedAt, env, tvars, users, uloc, uresult, usaves>>

\* catch (error) { return { success: false, error: "Failed to create DOCX file..." } }
UserCaught ==
    /\ upc' = "done"
    /\ uloc' = NoUserLoc
    /\ uresult' = [success |-> FALSE,
                   error |-> "Failed to create DOCX file. Please try again."]

\* a resolver that prefers the stored colors to the explicit overrides
UserBrandingStoredFirst(stored) ==
    [finalPrimaryColor |-> OrElse(stored.primaryColor, ureq.primaryColor),
     finalSecondaryColor |-> OrElse(stored.secondaryColor, ureq.secondaryColor),
     finalLogoData |-> IF Truthy(stored.logo) THEN stored.logo
                       ELSE IF defaultLogoReadable THEN DefaultLogoBase64
                       ELSE <<>>,
     buffer |-> NoDoc]

\* the colors and the logo handed to createBusinessPlanFromTemplate
UserBranding(stored) ==
    [finalPrimaryColor |-> OrElse(ureq.primaryColor, stored.primaryColor),
     finalSecondaryColor |-> OrElse(ureq.secondaryColor, stored.secondaryColor),
     finalLogoData |-> IF Truthy(stored.logo) THEN stored.logo
                       ELSE IF defaultLogoReadable THEN DefaultLogoBase64
                       ELSE <<>>,
     buffer |-> NoDoc]

\* getServerSession; without a session the stored branding stays null
UserGetSession ==
    /\ upc = "session"
    /\ \/ /\ ureq.session = NoSession
          /\ uloc' = UserBranding(NoBranding)
          /\ upc' = "encode"
          /\ UNCHANGED uresult
       \/ /\ ureq.session # NoSession
          /\ upc' = "findUser"
          /\ UNCHANGED <<uloc, uresult>>
       \/ UserCaught
    /\ UNCHANGED <<clients, files, nextFileId, now, pc, req, loc, result, started,
                   saves, endedAt, env, tvars, users, ureq, ustarted, usaves>>

\* connectDB and User.findById(session.user.id)
UserFindUser ==
    /\ upc = "findUser"
    /\ \/ /\ uloc' = IF FindUserById(ureq.session) = {}
                     THEN UserBranding(NoBranding)
                     ELSE UserBranding(CHOOSE u \in FindUserById(ureq.session) : TRUE)
          /\ upc' = "encode"
          /\ UNCHANGED uresult
       \/ UserCaught
    /\ UNCHANGED <<clients, files, nextFileId, now, pc, req, loc, result, started,
                   saves, endedAt, env, tvars, users, ureq, ustarted, usaves>>

\* await createBusinessPlanFromTemplate(...)
UserEncode ==
    /\ upc = "encode"
    /\ \/ /\ uloc' = [uloc EXCEPT !.buffer =
                         CreateBusinessPlanFromTemplate(
                             ureq.title, ureq.sections, uloc.finalLogoData,
                             uloc.finalPrimaryColor, uloc.finalSecondaryColor,
                             uloc.finalLogoData \in imageRunAccepts)]
          /\ upc' = "persist"
          /\ UNCHANGED uresult
       \/ UserCaught
    /\ UNCHANGED <<clients, files, nextFileId, now, pc, req, loc, result, started,
                   saves, endedAt, env, tvars, users, ureq, ustarted, usaves>>

\* await GeneratedFile.create(...), then the success result
UserPersist ==
    /\ upc = "persist"
    /\ \/ /\ files' = CreateFile(DocxFilename(ureq.title), uloc.buffer)
          /\ nextFileId' = nextFileId + 1
          /\ upc' = "done"
          /\ uloc' = NoUserLoc
          /\ uresult' = [success |-> TRUE,
                         message |-> <<"Business plan \"">> \o ureq.title
                                     \o <<"\" created successfully.">>,
                         downloadUrl |-> DownloadUrl(nextFileId),
                         filename |-> DocxFilename(ureq.title),
                         note |-> "The file has been generated and saved."]
       \/ UserCaught /\ UNCHANGED <<files, nextFileId>>
    /\ UNCHANGED <<clients, now, pc, req, loc, result, started, saves, endedAt, env, tvars,
                   users, ureq, ustarted, usaves>>

UserReturn ==
    /\ upc = "done"
    /\ upc' = "idle"
    /\ ureq' = NoUserReq
    /\ uloc' = NoUserLoc
    /\ uresult' = Pending
    /\ UNCHANGED <<clients, files, nextFileId, now, pc, req, loc, result, started,
                   saves, endedAt, env, tvars, users, ustarted, usaves>>

\* a write that stores the arguments as they are, absent ones included
BrandingOverwrite(stored, logo, primaryColor, secondaryColor) ==
    [logo |-> logo, primaryColor |-> primaryColor, secondaryColor |-> secondaryColor]

\* if (x) updateData.x = x, for the three branding fields, then $set
BrandingUpdate(stored, logo, primaryColor, secondaryColor) ==
    [logo |-> OrElse(logo, stored.logo),
     primaryColor |-> OrElse(primaryColor, stored.primaryColor),
     secondaryColor |-> OrElse(secondaryColor, stored.secondaryColor)]

\* the branding values a write can carry: absent or one value per field
LogoWrites == {<<>>, StoredLogo}
PrimaryWrites == {<<>>, <<"#", "1", "1", "2", "2", "3", "3">>}
SecondaryWrites == {<<>>, <<"#", "A", "A", "B", "B", "C", "C">>}

\* saveBranding.execute: User.findByIdAndUpdate(session.user.id, { $set })
SaveBrandingWithin(limit) ==
    /\ usaves < limit
    /\ usaves' = usaves + 1
    /\ \E s \in UserSessions, logo \in LogoWrites, pcol \in PrimaryWrites,
          scol \in SecondaryWrites :
          /\ bcall' = [tool |-> "saveBranding", session |-> s, target |-> s,
                       logo |-> logo, primaryColor |-> pcol, secondaryColor |-> scol]
          /\ IF FindUserById(s) # {}
             THEN users' = [users EXCEPT ![s] = BrandingUpdate(@, logo, pcol, scol)]
             ELSE UNCHANGED users
    /\ UNCHANGED <<clients, files, nextFileId, now, pc, req, loc, result, started,
                   saves, endedAt, env, upc, ureq, uloc, uresult, ustarted,
                   bwrites, gresp, encArgs, encOut, namerArgs, namerOut>>

SaveBranding == SaveBrandingWithin(MaxBrandingSaves)

\* saveClientBranding.execute: Client.findOneAndUpdate({ _id, userId },
\* { $set: { "branding.x": x, ... } }); branding.font, which no document
\* uses, is left out
SaveClientBrandingOf(limit, logos, primaries, secondaries) ==
    /\ bwrites < limit
    /\ bwrites' = bwrites + 1
    /\ \E s \in Sessions, c \in ClientIds, logo \in logos,
          pcol \in primaries, scol \in secondaries :
          /\ bcall' = [tool |-> "saveClientBranding", session |-> s, target |-> c,
                       logo |-> logo, primaryColor |-> pcol, secondaryColor |-> scol]
          /\ IF s # NoSession /\ FindOneClient(c, s) # {}
             THEN clients' = [clients EXCEPT ![c].branding =
                                 BrandingUpdate(@, logo, pcol, scol)]
             ELSE UNCHANGED clients
    /\ UNCHANGED <<files, nextFileId, now, pc, req, loc, result, started, saves,
                   endedAt, env, uvars, gresp, encArgs, encOut, namerArgs, namerOut>>

NextUser ==
    \/ UserInvoke
    \/ UserGetSession
    \/ UserFindUser
    \/ UserEncode
    \/ UserPersist
    \/ UserReturn
    \/ SaveBranding

SpecUser == Init /\ [][NextUser]_vars

SaveClientBrandingWithin(limit) ==
    SaveClientBrandingOf(limit, LogoWrites, PrimaryWrites, SecondaryWrites)

SaveClientBranding == SaveClientBrandingWithin(MaxBrandingWrites)

(***************************************************************************)
(* updateClient.execute: one findOneAndUpdate with $set of the details     *)
(* that were given.                                                        *)
(***************************************************************************)
\* the details a call carries: nothing, or an industry
DetailInputs ==
    {[industry |-> i, description |-> <<>>, website |-> <<>>] : i \in {<<>>, <<"x">>}}

\* if (industry) update.industry = industry; ... { $set: update }
DetailsUpdate(stored, industry, description, website) ==
    [stored EXCEPT !.industry = OrElse(industry, @),
                   !.description = OrElse(description, @),
                   !.website = OrElse(website, @)]

UpdateClient ==
    /\ \E s \in Sessions, c \in ClientIds, d \in DetailInputs :
          IF s # NoSession /\ FindOneClient(c, s) # {}
          THEN clients' = [clients EXCEPT ![c] =
                              DetailsUpdate(@, d.industry, d.description, d.website)]
          ELSE UNCHANGED clients
    /\ UNCHANGED <<files, nextFileId, now, pc, req, loc, result, started, saves,
                   endedAt, env, uvars, tvars>>

\* one generation at a time, next to the other tools that write the client
InvokeForHistory(p) == Start(p, MaxHistoryRequests)

StepHistory(p) ==
    \/ InvokeForHistory(p)
    \/ GetSession(p)
    \/ FindClient(p)
    \/ Encode(p)
    \/ Persist(p)
    \/ AppendHistory(p)
    \/ Return(p)

\* the generations all run in one execution slot
NextHistory ==
    \/ StepHistory(1)
    \/ SaveClientDocument
    \/ UpdateClient
    \/ SaveClientBrandingOf(MaxHistoryWrites, {<<>>}, PrimaryWrites \ {<<>>}, {<<>>})

SpecHistory == Init /\ [][NextHistory]_vars

(***************************************************************************)
(* One user with two clients, generations one at a time.                   *)
(***************************************************************************)
\* the branding the two clients start with: none, or a saved primary colour
FrameBrandings ==
    {NoBranding, [NoBranding EXCEPT !.primaryColor = <<"#", "1", "1", "2", "2", "3", "3">>]}

InitFrame ==
    /\ \E b \in FrameBrandings : InitCollections([c \in ClientIds |-> "u1"], b)
    /\ encArgs = NoEncArgs
    /\ namerArgs = NoNamerArgs

InvokeForFrame(p) ==
    /\ \A q \in Procs : pc[q] = "idle"
    /\ Start(p, MaxFrameRequests)

StepFrame(p) ==
    \/ InvokeForFrame(p)
    \/ GetSession(p)
    \/ FindClient(p)
    \/ Encode(p)
    \/ Persist(p)
    \/ AppendHistory(p)
    \/ Return(p)

NextFrame == \E p \in Procs : StepFrame(p)

SpecFrame == InitFrame /\ [][NextFrame]_vars

\* the branding writes alone, repeated
NextBranding ==
    \/ SaveBrandingWithin(MaxBrandingWrites)
    \/ SaveClientBranding

SpecBranding == Init /\ [][NextBranding]_vars

(***************************************************************************)
(* GET /api/files/[fileId]: the retrieval endpoint.                        *)
(***************************************************************************)
\* the path parameter can be cast to an _id of GeneratedFile (the ids of the
\* model are decimal numbers)
IsObjectId(ref) == ref # <<>> /\ \A i \in 1..Len(ref) : IsDigit(ref[i])

\* the _id a castable reference denotes
ObjectIdOf(ref) == CHOOSE n \in 0..(nextFileId + 1) : Decimal(n) = ref

\* `attachment; filename="${file.filename}"`
ContentDisposition(filename) ==
    <<"attachment; filename=\"">> \o filename \o <<"\"">>

\* the references a caller sends: none, the ids handed out so far, the next
\* id (never handed out) and a string that is not an ObjectId
FileRefs == {<<>>} \cup {Decimal(n) : n \in 1..nextFileId} \cup {<<"a", "b", "c">>}

\* the handler: 400 without a fileId; 500 from the catch when findById
\* rejects because the reference cannot be cast to an ObjectId, or when
\* connectDB or findById fail; 404 when there is no such document; else the
\* stored bytes with their headers (threw records what was caught)
GetFile ==
    /\ \E ref \in FileRefs :
          \/ /\ ref = <<>>
             /\ gresp' = [NoResponse EXCEPT !.ref = ref, !.status = 400,
                                            !.text = "File ID is required"]
          \/ /\ ref # <<>>
             /\ ~IsObjectId(ref)
             /\ gresp' = [NoResponse EXCEPT !.ref = ref, !.status = 500,
                                            !.text = "Internal Server Error",
                                            !.threw = "CastError"]
          \/ /\ ref # <<>>
             /\ gresp' = [NoResponse EXCEPT !.ref = ref, !.status = 500,
                                            !.text = "Internal Server Error",
                                            !.threw = "database"]
          \/ /\ IsObjectId(ref)
             /\ ObjectIdOf(ref) \notin DOMAIN files
             /\ gresp' = [NoResponse EXCEPT !.ref = ref, !.status = 404,
                                            !.text = "File not found"]
          \/ /\ IsObjectId(ref)
             /\ ObjectIdOf(ref) \in DOMAIN files
             /\ LET file == files[ObjectIdOf(ref)]
                IN gresp' = [ref |-> ref, status |-> 200, text |-> "",
                             threw |-> "",
                             data |-> file.data,
                             contentType |-> file.contentType,
                             disposition |-> ContentDisposition(file.filename)]
    /\ UNCHANGED <<clients, files, nextFileId, now, pc, req, loc, result, started,
                   saves, endedAt, env, uvars, bcall, bwrites, encArgs, encOut,
                   namerArgs, namerOut>>

\* a generation requested while no other is in flight, for later download
InvokeForDownload(p) ==
    /\ \A q \in Procs : pc[q] = "idle"
    /\ Start(p, MaxFileRequests)

StepFiles(p) ==
    \/ InvokeForDownload(p)
    \/ GetSession(p)
    \/ FindClient(p)
    \/ Encode(p)
    \/ Persist(p)
    \/ AppendHistory(p)
    \/ Return(p)

NextFiles ==
    \/ \E p \in Procs : StepFiles(p)
    \/ GetFile
    \/ Tick
    \/ ExpireFile

SpecFiles == Init /\ [][NextFiles]_vars

(***************************************************************************)
(* createBusinessPlanFromTemplate called directly with arguments drawn     *)
(* from small sets.                                                        *)
(***************************************************************************)
\* "", "a", "a\n\nb", "\n \na\n", " \t", "a\nb\r\n c "
SectionContents ==
    {<<>>,
     <<"a">>,
     <<"a", "\n", "\n", "b">>,
     <<"\n", " ", "\n", "a", "\n">>,
     <<" ", "\t">>,
     <<"a", "\n", "b", "\r", "\n", " ", "c", " ">>}

\* level: missing, -1, 0, 1, 2, 3, 4
SectionLevels == {{}, {-1}, {0}, {1}, {2}, {3}, {4}}

\* the sections a call can carry: every content at level 2, every level with "a"
SectionChoices ==
    {[title |-> <<"S">>, content |-> c, level |-> {2}] : c \in SectionContents}
    \cup {[title |-> <<"H">>, content |-> <<"a">>, level |-> l] : l \in SectionLevels}

SectionLists ==
    UNION {[1..n -> SectionChoices] : n \in 0..MaxSections}

\* absent, raw base64, a data URL
LogoInputs == {<<>>, DefaultLogoBase64, StoredLogo}

\* the message of the Error thrown by the catch of createBusinessPlanFromTemplate
EncoderErrorMessage == "Failed to create DOCX file from template. Details: ..."

\* the arguments of a call
EncoderInputs ==
    {[title |-> t, sections |-> secs, logoData |-> logo, primaryColor |-> pcol,
      secondaryColor |-> <<>>, imageOk |-> ok] :
        t \in Titles, secs \in SectionLists, logo \in LogoInputs,
        pcol \in {<<>>, <<"#", "1", "1", "2", "2", "3", "3">>}, ok \in BOOLEAN}

InitEncoder ==
    /\ InitProgram
    /\ encArgs \in EncoderInputs
    /\ namerArgs = NoNamerArgs

\* the call: the document is built and Packer.toBuffer returns it, or
\* something throws and the catch rethrows
EncoderCall ==
    /\ encOut = NoEncOut
    /\ \/ encOut' = [threw |-> FALSE, message |-> "",
                      doc |-> CreateBusinessPlanFromTemplate(
                                  encArgs.title, encArgs.sections, encArgs.logoData,
                                  encArgs.primaryColor, encArgs.secondaryColor,
                                  encArgs.imageOk)]
       \/ encOut' = [threw |-> TRUE, message |-> EncoderErrorMessage, doc |-> NoDoc]
    /\ UNCHANGED <<clients, files, nextFileId, now, pc, req, loc, result, started,
                   saves, endedAt, env, uvars, bcall, bwrites, gresp, encArgs,
                   namerArgs, namerOut>>

SpecEncoder == InitEncoder /\ [][EncoderCall]_vars

(***************************************************************************)
(* Step 2 of createBusinessPlanDocx.execute (version, display title,       *)
(* filename) applied to history snapshots and titles drawn from small sets.*)
(***************************************************************************)
\* "", "Plan", "Plan B", "Acme Q1"
NamerTitles ==
    {<<>>,
     <<"P", "l", "a", "n">>,
     <<"P", "l", "a", "n", " ", "B">>,
     <<"A", "c", "m", "e", " ", "Q", "1">>}

SnapshotEntry(name, type, fileId, version) ==
    [name |-> name, type |-> type, fileId |-> fileId, version |-> version,
     content |-> "Generated Business Plan"]

\* "Acme Q1 (v1)", "Plan (v2)", "Plan B (v3)", an entry "Plan" that carries
\* no version, and an uploaded text "Notes"
SnapshotEntries ==
    {SnapshotEntry(VersionedTitle(<<"A", "c", "m", "e", " ", "Q", "1">>, 1), "docx", 1, 1),
     SnapshotEntry(VersionedTitle(<<"P", "l", "a", "n">>, 2), "docx", 2, 2),
     SnapshotEntry(VersionedTitle(<<"P", "l", "a", "n", " ", "B">>, 3), "docx", 3, 3),
     SnapshotEntry(<<"P", "l", "a", "n">>, "text", 0, 0),
     SnapshotEntry(<<"N", "o", "t", "e", "s">>, "text", 0, 1)}

\* client.documents as read by Client.findOne
Snapshots == UNION {[1..n -> SnapshotEntries] : n \in 0..MaxSnapshot}

InitNamer ==
    /\ InitProgram
    /\ encArgs = NoEncArgs
    /\ namerArgs \in [documents : Snapshots, title : NamerTitles]

\* sameTitleDocs, nextVersion, versionedTitle and finalFilename
NamerCall ==
    /\ namerOut = NoNamerOut
    /\ LET nextVersion == NextVersionOf(namerArgs.documents, namerArgs.title)
           versionedTitle == VersionedTitle(namerArgs.title, nextVersion)
       IN namerOut' = [nextVersion |-> nextVersion,
                       versionedTitle |-> versionedTitle,
                       finalFilename |-> DocxFilename(versionedTitle),
                       rederived |-> <<>>]
    /\ UNCHANGED <<clients, files, nextFileId, now, pc, req, loc, result, started,
                   saves, endedAt, env, uvars, bcall, bwrites, gresp, encArgs,
                   encOut, namerArgs>>

\* the filename derivation applied to the filename it produced
Rederive ==
    /\ namerOut # NoNamerOut
    /\ namerOut.rederived = <<>>
    /\ namerOut' = [namerOut EXCEPT !.rederived = DocxFilename(namerOut.finalFilename)]
    /\ UNCHANGED <<clients, files, nextFileId, now, pc, req, loc, result, started,
                   saves, endedAt, env, uvars, bcall, bwrites, gresp, encArgs,
                   encOut, namerArgs>>

NextNamer ==
    \/ NamerCall
    \/ Rederive

SpecNamer == InitNamer /\ [][NextNamer]_vars

(***************************************************************************)
(* Properties.                                                             *)
(***************************************************************************)
IsSuccess(r) == "success" \in DOMAIN r /\ r.success = TRUE
IsStructuredFailure(r) == DOMAIN r = {"success", "error"} /\ r.success = FALSE

\* the file id a download URL names
UrlFileId(url) ==
    IF \E n \in 0..nextFileId : DownloadUrl(n) = url
    THEN CHOOSE n \in 0..nextFileId : DownloadUrl(n) = url
    ELSE 0

Documents(c) == clients[c].documents

\* d is an entry that a generation with title t appended
GeneratedFor(d, t) == d.fileId # 0 /\ d.name = VersionedTitle(t, d.version)

\* the entries of c that title t matches are exactly generations of t
OnlyGenerationsOf(c, t) ==
    LET m == SameTitleDocs(Documents(c), t)
    IN \A i \in 1..Len(m) : GeneratedFor(m[i], t)

\* C1: when the generations run one after another and the history holds no
\* other entry whose name starts with the title, the successful generations
\* of that title are assigned versions 1, 2, ..., N in request order.
C1_SerialVersions ==
    \A c \in ClientIds, t \in Titles :
        OnlyGenerationsOf(c, t) =>
            LET m == SameTitleDocs(Documents(c), t)
            IN /\ \A i \in 1..Len(m) : m[i].version = i
               /\ \A p \in Procs :
                     (/\ pc[p] = "done" /\ IsSuccess(result[p])
                      /\ req[p].clientId = c /\ req[p].title = t)
                     => result[p].version = Len(m)

C1_Witness ==
    /\ OnlyGenerationsOf("c1", <<"P", "l", "a", "n">>)
    /\ Len(SameTitleDocs(Documents("c1"), <<"P", "l", "a", "n">>)) = 3
    /\ \E p \in Procs : pc[p] = "done" /\ IsSuccess(result[p]) /\ result[p].version = 3

\* C2 (as claimed): within one client's history no two entries with the
\* same base title carry the same version number.
C2_UniqueVersionPerBaseTitle ==
    \A c \in ClientIds :
        \A i, j \in 1..Len(Documents(c)) :
            (i # j /\ BaseTitle(Documents(c)[i].name) = BaseTitle(Documents(c)[j].name))
            => Documents(c)[i].version # Documents(c)[j].version

\* C3: two concurrent generations of the same client and title that computed
\* the same version both append, so the history then holds two entries with
\* the same name and the same version; nothing stops the second append.
C3_RaceDuplicates ==
    \A p, q \in Procs :
        (/\ p # q
         /\ pc[p] = "done" /\ IsSuccess(result[p])
         /\ pc[q] = "done" /\ IsSuccess(result[q])
         /\ req[p].clientId = req[q].clientId
         /\ req[p].title = req[q].title
         /\ result[p].version = result[q].version)
        => \E i, j \in 1..Len(Documents(req[p].clientId)) :
              LET d == Documents(req[p].clientId)
              IN /\ i # j
                 /\ d[i].name = d[j].name
                 /\ d[i].name = VersionedTitle(req[p].title, result[p].version)
                 /\ d[i].version = result[p].version
                 /\ d[j].version = result[p].version

C3_Witness ==
    \E p, q \in Procs :
        /\ p # q
        /\ pc[p] = "done" /\ IsSuccess(result[p])
        /\ pc[q] = "done" /\ IsSuccess(result[q])
        /\ req[p].clientId = req[q].clientId
        /\ req[p].title = req[q].title
        /\ result[p].version = result[q].version
        /\ \E i, j \in 1..Len(Documents(req[p].clientId)) :
              /\ i # j
              /\ Documents(req[p].clientId)[i].name = Documents(req[p].clientId)[j].name
              /\ Documents(req[p].clientId)[i].version
                     = Documents(req[p].clientId)[j].version

\* C4 (as claimed): every history entry that carries a fileId refers to an
\* artifact that exists in the artifact store.
C4_NoDanglingFileId ==
    \A c \in ClientIds :
        \A i \in 1..Len(Documents(c)) :
            Documents(c)[i].fileId # 0 => Documents(c)[i].fileId \in DOMAIN files

\* C5: a persist step that stores no artifact ends the request with a failure
\* result and without the history append; no step of a request other than
\* its history append changes any client's history.
C5_PersistFailure ==
    [][\A p \in Procs :
          /\ (pc[p] = "persist" /\ pc'[p] # "persist" /\ files' = files)
             => /\ pc'[p] = "done"
                /\ IsStructuredFailure(result'[p])
                /\ clients' = clients
          /\ (pc'[p] # pc[p] /\ pc[p] # "append") => clients' = clients]_vars

C5_Witness ==
    \E p \in Procs :
        /\ pc[p] = "done"
        /\ endedAt[p] = "persist"
        /\ IsStructuredFailure(result[p])
        /\ Documents(req[p].clientId) = <<>>

\* C6 (as claimed): every failing outcome of a generation request has the
\* shape {success: false, error: <string>}.
C6_FailuresAreStructured ==
    \A p \in Procs :
        (pc[p] = "done" /\ ~IsSuccess(result[p])) => IsStructuredFailure(result[p])

\* C7: success is returned only by the step that completes the history
\* append, after the artifact was persisted; the client then holds exactly
\* one entry for the artifact and no other client holds one; the returned
\* version and filename are those of the entry and of the artifact, and the
\* download URL names the artifact, which is in the store unless its TTL
\* has elapsed.
C7_SuccessMeansPersistedAndAppended ==
    [][\A p \in Procs :
          (IsSuccess(result'[p]) /\ ~IsSuccess(result[p])) =>
              LET id == loc[p].fileId
                  c == req[p].clientId
                  linked(k) == {i \in 1..Len(clients'[k].documents) :
                                   clients'[k].documents[i].fileId = id}
              IN /\ pc[p] = "append" /\ pc'[p] = "done"
                 /\ id \in 1..(nextFileId - 1)
                 /\ Cardinality(linked(c)) = 1
                 /\ \A k \in ClientIds \ {c} : linked(k) = {}
                 /\ \A i \in linked(c) :
                       /\ clients'[c].documents[i].version = result'[p].version
                       /\ clients'[c].documents[i].name
                              = VersionedTitle(req[p].title, result'[p].version)
                 /\ result'[p].filename = loc[p].finalFilename
                 /\ UrlFileId(result'[p].downloadUrl) = id
                 /\ id \in DOMAIN files' =>
                       /\ files'[id].filename = result'[p].filename
                       /\ files'[id].data = loc[p].buffer
                 /\ id \notin DOMAIN files' =>
                       now - loc[p].fileCreatedAt >= ExpireAfterSeconds]_vars

C7_Witness ==
    \E p \in Procs :
        /\ pc[p] = "done" /\ IsSuccess(result[p])
        /\ UrlFileId(result[p].downloadUrl) \in DOMAIN files
        /\ files[UrlFileId(result[p].downloadUrl)].filename = result[p].filename
        /\ \E i \in 1..Len(Documents(req[p].clientId)) :
              /\ Documents(req[p].clientId)[i].fileId = UrlFileId(result[p].downloadUrl)
              /\ Documents(req[p].clientId)[i].version = result[p].version

\* artifacts that no history entry references and no request is about to link
Orphans(fs, cl, pcs, locs) ==
    {id \in DOMAIN fs :
        /\ \A c \in ClientIds : \A i \in 1..Len(cl[c].documents) :
              cl[c].documents[i].fileId # id
        /\ \A p \in Procs : ~(pcs[p] = "append" /\ locs[p].fileId = id)}

IsAppendFailure(p) ==
    pc[p] = "append" /\ pc'[p] = "done" /\ ~IsSuccess(result'[p])

\* C8: a failing history append returns a failure, leaves every history and
\* the artifact store as they are (the written artifact is not rolled back),
\* and is the only step of generation that leaves an artifact without a
\* history entry.
C8_AppendFailureLeak ==
    [][/\ \A p \in Procs :
             IsAppendFailure(p) =>
                 /\ IsStructuredFailure(result'[p])
                 /\ clients' = clients
                 /\ files' = files
       /\ (Orphans(files', clients', pc', loc') \ Orphans(files, clients, pc, loc) # {})
             => \E p \in Procs :
                   /\ IsAppendFailure(p)
                   /\ Orphans(files', clients', pc', loc')
                          \ Orphans(files, clients, pc, loc) = {loc[p].fileId}]_vars

C8_Witness ==
    \E p \in Procs :
        /\ pc[p] = "done"
        /\ endedAt[p] = "append"
        /\ IsStructuredFailure(result[p])
        /\ Orphans(files, clients, pc, loc) # {}
        /\ Documents(req[p].clientId) = <<>>

IsHexDigit(ch) == IsDigit(ch) \/ ch \in {"a", "b", "c", "d", "e", "f",
                                         "A", "B", "C", "D", "E", "F"}

\* '#' followed by 6 hex digits
IsHexColor(s) == Len(s) = 7 /\ s[1] = "#" /\ \A i \in 2..7 : IsHexDigit(s[i])

\* a color that was supplied and is malformed
IsMalformed(s) == Truthy(s) /\ ~IsHexColor(s)

\* C9 (as claimed): a request that explicitly supplies a malformed color is
\* rejected before any storage read or write: it never gets past the read of
\* the stored branding to the encoder or to the artifact store, it does not
\* report success, and the malformed value is never the color the encoder
\* is given.
C9_MalformedColorRejected ==
    (upc # "idle" /\ (IsMalformed(ureq.primaryColor) \/ IsMalformed(ureq.secondaryColor)))
    => /\ upc \notin {"encode", "persist"}
       /\ ~IsSuccess(uresult)
       /\ IsMalformed(ureq.primaryColor) => uloc.finalPrimaryColor # ureq.primaryColor
       /\ IsMalformed(ureq.secondaryColor) => uloc.finalSecondaryColor # ureq.secondaryColor

\* C10 (as claimed): a request with an empty title is rejected before any
\* encoding work: it never reaches the encoder, the artifact store or the
\* history append, and it does not report success.
C10_EmptyTitleRejected ==
    \A p \in Procs :
        (pc[p] # "idle" /\ req[p].title = <<>>)
        => /\ pc[p] \notin {"encode", "persist", "append"}
           /\ ~IsSuccess(result[p])

\* the first present (non-empty) value of a list of candidates, absent if none
FirstPresent(candidates) ==
    IF \E i \in 1..Len(candidates) : Truthy(candidates[i])
    THEN candidates[CHOOSE i \in 1..Len(candidates) :
                       /\ Truthy(candidates[i])
                       /\ \A j \in 1..(i - 1) : ~Truthy(candidates[j])]
    ELSE <<>>

\* the branding the caller has stored when the request reads it
StoredBrandingOf(session) ==
    IF session \in DOMAIN users THEN users[session] ELSE NoBranding

HashPrimary == <<"#">> \o DefaultPrimaryColor
HashSecondary == <<"#">> \o DefaultSecondaryColor

\* C11: each branding field is resolved on its own, from its own candidates
\* only: a color is the explicit override if present, else the stored value
\* if present, else the built-in default (#1E40AF, #3B82F6), and reaches the
\* heading style without its "#"; the logo (for which the tool takes no
\* override) is the stored logo if present, else the default asset if it can
\* be read, else absent.
C11_BrandingPrecedence ==
    [][/\ (upc \in {"session", "findUser"} /\ upc' = "encode") =>
             LET stored == IF upc = "findUser" THEN StoredBrandingOf(ureq.session)
                           ELSE NoBranding
                 asset == IF defaultLogoReadable THEN DefaultLogoBase64 ELSE <<>>
             IN /\ uloc'.finalPrimaryColor
                       = FirstPresent(<<ureq.primaryColor, stored.primaryColor>>)
                /\ uloc'.finalSecondaryColor
                       = FirstPresent(<<ureq.secondaryColor, stored.secondaryColor>>)
                /\ uloc'.finalLogoData = FirstPresent(<<stored.logo, asset>>)
       /\ (upc = "encode" /\ upc' = "persist") =>
             /\ <<"#">> \o uloc'.buffer.heading1Color
                    = FirstPresent(<<uloc.finalPrimaryColor, HashPrimary>>)
             /\ <<"#">> \o uloc'.buffer.heading2Color
                    = FirstPresent(<<uloc.finalSecondaryColor, HashSecondary>>)]_vars

\* an explicit secondary color, a stored primary color and the stored logo
\* end up in one document
C11_Witness ==
    /\ upc = "persist"
    /\ ureq.session = "u1"
    /\ ureq.primaryColor = <<>>
    /\ Truthy(ureq.secondaryColor)
    /\ Truthy(users["u1"].primaryColor)
    /\ Truthy(users["u1"].secondaryColor)
    /\ <<"#">> \o uloc.buffer.heading1Color = users["u1"].primaryColor
    /\ <<"#">> \o uloc.buffer.heading2Color = ureq.secondaryColor
    /\ uloc.finalLogoData = StoredLogo

\* the number of image blocks of a block sequence
ImageCount(blocks) == Cardinality({i \in 1..Len(blocks) : blocks[i].kind = "image"})

\* the client has no stored logo and the default logo asset cannot be read
NoLogoAvailable(c) == ~Truthy(clients[c].branding.logo) /\ ~defaultLogoReadable

\* C12: when the client has no stored logo and the default logo asset cannot
\* be read, the request goes on without a logo: the document it encodes and
\* the artifact it persists contain zero image blocks, and the request that
\* reports success has its artifact persisted and its history entry appended.
C12_NoLogoStillSucceeds ==
    \A p \in Procs :
        (pc[p] # "idle" /\ NoLogoAvailable(req[p].clientId)) =>
            /\ pc[p] \in {"encode", "persist", "append"} => loc[p].finalLogoData = <<>>
            /\ pc[p] \in {"persist", "append"} => ImageCount(loc[p].buffer.blocks) = 0
            /\ pc[p] = "append" =>
                  (loc[p].fileId \in DOMAIN files =>
                      ImageCount(files[loc[p].fileId].data.blocks) = 0)
            /\ (pc[p] = "done" /\ IsSuccess(result[p])) =>
                  LET id == UrlFileId(result[p].downloadUrl)
                  IN /\ endedAt[p] = "append"
                     /\ \E i \in 1..Len(Documents(req[p].clientId)) :
                           Documents(req[p].clientId)[i].fileId = id
                     /\ id \in DOMAIN files => ImageCount(files[id].data.blocks) = 0

C12_Witness ==
    \E p \in Procs :
        /\ NoLogoAvailable(req[p].clientId)
        /\ pc[p] = "done" /\ IsSuccess(result[p])
        /\ UrlFileId(result[p].downloadUrl) \in DOMAIN files
        /\ ImageCount(files[UrlFileId(result[p].downloadUrl)].data.blocks) = 0
        /\ Len(files[UrlFileId(result[p].downloadUrl)].data.blocks) > 0
        /\ \E i \in 1..Len(Documents(req[p].clientId)) :
              Documents(req[p].clientId)[i].fileId = UrlFileId(result[p].downloadUrl)

\* position i of content c holds the first non-blank character of its line
IsFirstNonBlankOfLine(c, i) ==
    /\ ~IsSpaceChar(c[i])
    /\ \A j \in 1..(i - 1) :
          (\A m \in j..(i - 1) : c[m] # "\n") => IsSpaceChar(c[j])

\* one position per line of c that is not empty or whitespace-only
NonBlankLineStarts(c) == {i \in 1..Len(c) : IsFirstNonBlankOfLine(c, i)}

\* the q-th smallest element of a set of numbers
Nth(S, q) == CHOOSE x \in S : Cardinality({y \in S : y <= x}) = q

\* the line of c around position i: from after the newline before i up to
\* the newline after i
LineAround(c, i) ==
    LET before == {j \in 1..(i - 1) : c[j] = "\n"}
        after == {j \in (i + 1)..Len(c) : c[j] = "\n"}
        first == IF before = {} THEN 1 ELSE (CHOOSE j \in before : \A x \in before : x <= j) + 1
        last == IF after = {} THEN Len(c) ELSE (CHOOSE j \in after : \A x \in after : j <= x) - 1
    IN SubSeq(c, first, last)

\* the number of blocks the sections before section s account for
RECURSIVE BlocksBefore(_, _)
BlocksBefore(sections, s) ==
    IF s = 1 THEN 0
    ELSE BlocksBefore(sections, s - 1)
         + 1 + Cardinality(NonBlankLineStarts(sections[s - 1].content))

TitlePosition(blocks) == CHOOSE i \in 1..Len(blocks) : blocks[i].kind = "title"

\* C13: in every document the encoder returns, each section with k lines
\* that are not empty or whitespace-only contributes one heading block with
\* the section title, immediately followed by exactly k paragraph blocks
\* holding those lines in order, and then the next section's heading or the
\* end of the document; with k = 0 the heading stands alone.
C13_HeadingThenParagraphs ==
    (encOut # NoEncOut /\ ~encOut.threw) =>
        LET blocks == encOut.doc.blocks
            secs == encArgs.sections
        IN \A s \in 1..Len(secs) :
              LET c == secs[s].content
                  starts == NonBlankLineStarts(c)
                  k == Cardinality(starts)
                  h == TitlePosition(blocks) + BlocksBefore(secs, s) + 1
              IN /\ h + k <= Len(blocks)
                 /\ blocks[h].kind = "heading"
                 /\ blocks[h].text = secs[s].title
                 /\ \A q \in 1..k :
                       /\ blocks[h + q].kind = "paragraph"
                       /\ blocks[h + q].text = LineAround(c, Nth(starts, q))
                 /\ IF s = Len(secs) THEN h + k = Len(blocks)
                    ELSE blocks[h + k + 1].kind = "heading"

\* a section of blank lines only next to one with blank lines around its text
C13_Witness ==
    /\ encOut # NoEncOut /\ ~encOut.threw
    /\ Len(encArgs.sections) = 2
    /\ encArgs.sections[1].content = <<" ", "\t">>
    /\ encArgs.sections[2].content = <<"a", "\n", "b", "\r", "\n", " ", "c", " ">>
    /\ Len(encOut.doc.blocks) = TitlePosition(encOut.doc.blocks) + 5
    /\ encOut.doc.blocks[Len(encOut.doc.blocks)].text = <<" ", "c", " ">>

\* the positions of the blocks of one kind
PositionsOf(blocks, kind) == {i \in 1..Len(blocks) : blocks[i].kind = kind}

\* C14: every document the encoder returns starts with one image block if
\* and only if logo data was given and the image was accepted, then has
\* exactly one title block carrying the title, then only heading and
\* paragraph blocks, one heading per section, in input order; with no
\* sections the document is the title block and (iff there is a logo) the
\* image block, and nothing else.
C14_BlockOrder ==
    (encOut # NoEncOut /\ ~encOut.threw) =>
        LET blocks == encOut.doc.blocks
            secs == encArgs.sections
            hasLogo == Truthy(encArgs.logoData) /\ encArgs.imageOk
            images == PositionsOf(blocks, "image")
            titles == PositionsOf(blocks, "title")
            headings == PositionsOf(blocks, "heading")
            t == IF hasLogo THEN 2 ELSE 1
        IN /\ images = (IF hasLogo THEN {1} ELSE {})
           /\ titles = {t}
           /\ blocks[t].text = encArgs.title
           /\ \A i \in (t + 1)..Len(blocks) : blocks[i].kind \in {"heading", "paragraph"}
           /\ Cardinality(headings) = Len(secs)
           /\ \A n \in 1..Len(secs) : blocks[Nth(headings, n)].text = secs[n].title
           /\ secs = <<>> => Len(blocks) = t

\* no sections and an accepted logo: the image block, then the title block
C14_Witness ==
    /\ encOut # NoEncOut /\ ~encOut.threw
    /\ encArgs.sections = <<>>
    /\ Truthy(encArgs.logoData) /\ encArgs.imageOk
    /\ Len(encOut.doc.blocks) = 2
    /\ encOut.doc.blocks[1].kind = "image"
    /\ encOut.doc.blocks[2].kind = "title"

DocxExtension == <<".", "d", "o", "c", "x">>

\* C15 (as claimed): applying the filename derivation to a filename it
\* produced returns that same filename.
C15_RederiveIsIdentity ==
    namerOut.rederived # <<>> => namerOut.rederived = namerOut.finalFilename

\* C15 (amended): a produced filename is a stem of characters a-z, 0-9 and
\* "_", as long as the display title, followed by ".docx"; applying the
\* derivation to it leaves the stem unchanged but turns the "." into "_" and
\* appends ".docx" again.
C15_StemSurvivesRederivation ==
    namerOut # NoNamerOut =>
        LET f == namerOut.finalFilename
            n == Len(f) - Len(DocxExtension)
            stem == SubSeq(f, 1, n)
        IN /\ n = Len(namerOut.versionedTitle)
           /\ SubSeq(f, n + 1, Len(f)) = DocxExtension
           /\ \A i \in 1..n : IsLower(stem[i]) \/ IsDigit(stem[i]) \/ stem[i] = "_"
           /\ namerOut.rederived # <<>> =>
                 namerOut.rederived
                     = stem \o <<"_", "d", "o", "c", "x">> \o DocxExtension

C15_Witness ==
    /\ namerArgs.title = <<"P", "l", "a", "n">>
    /\ namerOut.finalFilename = <<"p", "l", "a", "n", "_", "_", "v", "1", "_", ".", "d", "o", "c", "x">>
    /\ namerOut.rederived = <<"p", "l", "a", "n", "_", "_", "v", "1", "_", "_", "d", "o", "c", "x", ".", "d", "o", "c", "x">>

\* C16 (as claimed): for title "Acme Q1" and no prior history the version
\* is 1, the display title "Acme Q1 (v1)" and the filename "acme_q1_v1_.docx".
C16_AcmeFirstVersion ==
    (namerOut # NoNamerOut /\ namerArgs.documents = <<>>
     /\ namerArgs.title = <<"A", "c", "m", "e", " ", "Q", "1">>) =>
        /\ namerOut.nextVersion = 1
        /\ namerOut.versionedTitle = <<"A", "c", "m", "e", " ", "Q", "1", " ", "(", "v", "1", ")">>
        /\ namerOut.finalFilename = <<"a", "c", "m", "e", "_", "q", "1", "_", "v", "1", "_", ".", "d", "o", "c", "x">>

\* C16 (amended): for title "Acme Q1" and no prior history the version is 1,
\* the display title "Acme Q1 (v1)" and the filename "acme_q1__v1_.docx":
\* the space and the "(" before "v1" each become an underscore.
C16_AcmeFirstVersionFilename ==
    (namerOut # NoNamerOut /\ namerArgs.documents = <<>>
     /\ namerArgs.title = <<"A", "c", "m", "e", " ", "Q", "1">>) =>
        /\ namerOut.nextVersion = 1
        /\ namerOut.versionedTitle = <<"A", "c", "m", "e", " ", "Q", "1", " ", "(", "v", "1", ")">>
        /\ namerOut.finalFilename = <<"a", "c", "m", "e", "_", "q", "1", "_", "_", "v", "1", "_", ".", "d", "o", "c", "x">>

C16_Witness ==
    /\ namerArgs.documents = <<>>
    /\ namerArgs.title = <<"A", "c", "m", "e", " ", "Q", "1">>
    /\ namerOut.nextVersion = 1
    /\ namerOut.finalFilename = <<"a", "c", "m", "e", "_", "q", "1", "_", "_", "v", "1", "_", ".", "d", "o", "c", "x">>

\* the reference was returned by a persist
WasPersisted(ref) == IsObjectId(ref) /\ ObjectIdOf(ref) \in 1..(nextFileId - 1)

\* C17 (as claimed): unless the database fails, retrieval of a reference
\* returned by persist returns status 200 with the persisted bytes, the
\* stored content type and Content-Disposition attachment;
\* filename="<filename>"; retrieval of any other reference returns the
\* not-found signal and no payload.
C17_RoundTrip ==
    [][(gresp' # gresp /\ gresp'.ref # <<>> /\ gresp'.threw # "database") =>
          IF WasPersisted(gresp'.ref)
          THEN /\ gresp'.status = 200
               /\ gresp'.contentType = DocxContentType
               /\ ObjectIdOf(gresp'.ref) \in DOMAIN files =>
                     /\ gresp'.data = files[ObjectIdOf(gresp'.ref)].data
                     /\ gresp'.disposition
                            = ContentDisposition(files[ObjectIdOf(gresp'.ref)].filename)
          ELSE /\ gresp'.status = 404
               /\ gresp'.data = NoDoc]_vars

BrandingFields == {"logo", "primaryColor", "secondaryColor"}

\* C18: a stored branding field of a user or of a client changes only in a
\* branding write addressed to that owner that supplies the field, and then
\* to the supplied value; so a field that a write does not supply keeps its
\* stored value and no write clears a stored field.
C18_PartialBrandingWrite ==
    [][/\ \A u \in DOMAIN users : \A f \in BrandingFields :
             /\ users'[u][f] # users[u][f] =>
                   /\ bcall'.tool = "saveBranding" /\ bcall'.target = u
                   /\ Truthy(bcall'[f])
                   /\ users'[u][f] = bcall'[f]
             /\ Truthy(users[u][f]) => Truthy(users'[u][f])
       /\ \A c \in ClientIds : \A f \in BrandingFields :
             /\ clients'[c].branding[f] # clients[c].branding[f] =>
                   /\ bcall'.tool = "saveClientBranding" /\ bcall'.target = c
                   /\ Truthy(bcall'[f])
                   /\ clients'[c].branding[f] = bcall'[f]
             /\ Truthy(clients[c].branding[f]) => Truthy(clients'[c].branding[f])]_vars

\* a second write that supplied only the primary color left the stored logo
C18_Witness ==
    /\ bcall.tool = "saveBranding"
    /\ bcall.target = "u1"
    /\ bcall.logo = <<>>
    /\ Truthy(bcall.primaryColor)
    /\ users["u1"].logo = StoredLogo
    /\ users["u1"].primaryColor = bcall.primaryColor
    /\ usaves = 2

\* C19 (as claimed): the failure result of a request that failed in the
\* encoder differs from the failure result of a request that failed at any
\* other step.
C19_EncodingFailureIsDistinct ==
    \A p, q \in Procs :
        (/\ pc[p] = "done" /\ ~IsSuccess(result[p]) /\ endedAt[p] = "encode"
         /\ pc[q] = "done" /\ ~IsSuccess(result[q]) /\ endedAt[q] # "encode")
        => result[p] # result[q]

\* name d starts with title t, character by character
HasPrefix(d, t) == Len(t) <= Len(d) /\ \A k \in 1..Len(t) : d[k] = t[k]

\* C20: the version computed from a history snapshot is 1 when no entry's
\* name starts with the title; otherwise it is one more than the version of
\* some matching entry and greater than the version of every matching
\* entry, an entry without a version counting as 1; it is always positive,
\* and the snapshot holding only "Acme Q1 (v1)" gives 2 for "Acme Q1".
C20_NextVersionFormula ==
    namerOut # NoNamerOut =>
        LET docs == namerArgs.documents
            v == namerOut.nextVersion
            matching == {i \in 1..Len(docs) : HasPrefix(docs[i].name, namerArgs.title)}
            counted(i) == IF docs[i].version = 0 THEN 1 ELSE docs[i].version
        IN /\ v \in Nat /\ v >= 1
           /\ matching = {} => v = 1
           /\ matching # {} => \E i \in matching : v = counted(i) + 1
           /\ \A i \in matching : v > counted(i) /\ v > docs[i].version
           /\ (Len(docs) = 1 /\ docs[1].name = <<"A", "c", "m", "e", " ", "Q", "1", " ", "(", "v", "1", ")">> /\ docs[1].version = 1
               /\ namerArgs.title = <<"A", "c", "m", "e", " ", "Q", "1">>) => v = 2

C20_Witness ==
    /\ Len(namerArgs.documents) = 1
    /\ namerArgs.documents[1].name = <<"A", "c", "m", "e", " ", "Q", "1", " ", "(", "v", "1", ")">>
    /\ namerArgs.title = <<"A", "c", "m", "e", " ", "Q", "1">>
    /\ namerOut.nextVersion = 2
    /\ namerOut.versionedTitle = <<"A", "c", "m", "e", " ", "Q", "1", " ", "(", "v", "2", ")">>

IsSanitizedFilename(f, t) ==
    /\ Len(f) = Len(t) + 5
    /\ SubSeq(f, Len(t) + 1, Len(f)) = <<".", "d", "o", "c", "x">>
    /\ \A i \in 1..Len(t) :
          /\ IsDigit(t[i]) \/ IsLower(t[i]) => f[i] = t[i]
          /\ IsUpper(t[i]) => \E k \in 1..26 : UpperChars[k] = t[i] /\ f[i] = LowerChars[k]
          /\ ~IsAlnum(t[i]) => f[i] = "_"

\* C22: whenever a generation request appends its entry, the entry's name is
\* the requested title followed by " (v<version>)" where <version> is the
\* entry's version field and the reported version, and the reported filename
\* (also the stored artifact's filename) is that display title with each
\* character outside [a-zA-Z0-9] replaced one-for-one by "_", lower-cased,
\* followed by ".docx".
C22_DisplayTitleAndFilename ==
    [][\A p \in Procs :
          (pc[p] = "append" /\ pc'[p] = "done" /\ IsSuccess(result'[p]))
          => LET docs == clients'[req[p].clientId].documents
                 e == docs[Len(docs)]
                 display == req[p].title \o <<" ", "(", "v">> \o Decimal(e.version) \o <<")">>
             IN /\ Len(docs) = Len(clients[req[p].clientId].documents) + 1
                /\ e.version = loc[p].nextVersion
                /\ e.name = display
                /\ result'[p].version = e.version
                /\ IsSanitizedFilename(result'[p].filename, display)
                /\ e.fileId \in DOMAIN files
                /\ files[e.fileId].filename = result'[p].filename]_vars

C22_Witness ==
    \E p \in Procs :
       /\ pc[p] = "done" /\ IsSuccess(result[p])
       /\ result[p].version = 2
       /\ result[p].filename = <<"p", "l", "a", "n", "_", "_", "v", "2", "_", ".", "d", "o", "c", "x">>
       /\ LET docs == Documents(req[p].clientId)
          IN /\ Len(docs) = 2
             /\ docs[2].name = <<"P", "l", "a", "n", " ", "(", "v", "2", ")">>
             /\ docs[2].version = 2
             /\ docs[2].type = "docx"

HeadingsOf(doc) == SelectSeq(doc.blocks, LAMBDA b : b.kind = "heading")

\* C23: in every encoded document the heading of a section has the second
\* rank exactly when the section's level is 2, the third rank exactly when
\* it is 3, and the top rank for every other level (1, 0, 4, negative or
\* missing).
C23_HeadingRank ==
    (encOut # NoEncOut /\ ~encOut.threw) =>
        LET secs == encArgs.sections
            heads == HeadingsOf(encOut.doc)
        IN /\ Len(heads) = Len(secs)
           /\ \A i \in 1..Len(secs) :
                 /\ heads[i].text = secs[i].title
                 /\ heads[i].rank \in {1, 2, 3}
                 /\ heads[i].rank = 2 <=> secs[i].level = {2}
                 /\ heads[i].rank = 3 <=> secs[i].level = {3}
                 /\ heads[i].rank = 1 <=> secs[i].level \notin {{2}, {3}}

C23_Witness ==
    /\ encOut # NoEncOut /\ ~encOut.threw
    /\ Len(encArgs.sections) = 2
    /\ encArgs.sections[1].level = {4}
    /\ encArgs.sections[2].level = {3}
    /\ LET heads == HeadingsOf(encOut.doc)
       IN Len(heads) = 2 /\ heads[1].rank = 1 /\ heads[2].rank = 3

\* the request has logo data that ImageRun does not accept
LogoFails(p) ==
    Truthy(loc[p].finalLogoData) /\ loc[p].finalLogoData \notin imageRunAccepts

\* the document has no image block, starts with the title t and has one
\* heading per section, in order
IsLogolessDocument(doc, t, secs) ==
    /\ ImageCount(doc.blocks) = 0
    /\ Len(doc.blocks) >= 1
    /\ doc.blocks[1].kind = "title" /\ doc.blocks[1].text = t
    /\ LET heads == HeadingsOf(doc)
       IN /\ Len(heads) = Len(secs)
          /\ \A i \in 1..Len(secs) : heads[i].text = secs[i].title

\* C24: when the logo of a request cannot be decoded or embedded, the
\* failure is caught inside the encoder: the document the request encodes
\* and the artifact it persists are the document without a logo (no image
\* block, the display title first, every section's heading), and the request
\* goes on to persist and append.
C24_LogoFailureCaught ==
    \A p \in Procs :
        (pc[p] \in {"persist", "append"} /\ LogoFails(p)) =>
            /\ IsLogolessDocument(loc[p].buffer, loc[p].versionedTitle, req[p].sections)
            /\ loc[p].buffer =
                  CreateBusinessPlanFromTemplate(loc[p].versionedTitle, req[p].sections,
                      <<>>, loc[p].primaryColor, loc[p].secondaryColor, FALSE)
            /\ (pc[p] = "append" /\ loc[p].fileId \in DOMAIN files) =>
                  IsLogolessDocument(files[loc[p].fileId].data,
                                     loc[p].versionedTitle, req[p].sections)

C24_Witness ==
    \E p \in Procs :
        /\ pc[p] = "append" /\ LogoFails(p)
        /\ Len(req[p].sections) > 0
        /\ loc[p].fileId \in DOMAIN files
        /\ IsLogolessDocument(files[loc[p].fileId].data,
                              loc[p].versionedTitle, req[p].sections)

\* the order in which one execution passes its awaits
StepOrder ==
    {<<"idle", "session">>, <<"session", "findClient">>, <<"findClient", "encode">>,
     <<"encode", "persist">>, <<"persist", "append">>, <<"append", "done">>,
     <<"session", "done">>, <<"findClient", "done">>, <<"encode", "done">>,
     <<"persist", "done">>, <<"done", "idle">>}

\* C25: one generation request touches storage strictly in the order read of
\* the client record, artifact persist, history append.  Every step moves
\* the request along that order; an artifact is written only by a request
\* that has completed its read and its encoding and has not yet persisted,
\* and the write is complete when the request moves on to the append; an
\* entry is appended only by a request that has completed its persist, as
\* the last thing it does.
C25_StepOrder ==
    [][/\ \A p \in Procs :
            /\ pc'[p] # pc[p] => <<pc[p], pc'[p]>> \in StepOrder
            /\ pc[p] \in {"encode", "persist", "append"} => loc[p].nextVersion >= 1
            /\ pc[p] \in {"idle", "session", "findClient"} => loc[p] = NoLoc
            /\ pc[p] \in {"encode", "persist"} => loc[p].fileId = 0
            /\ pc[p] = "append" => loc[p].fileId \in 1..(nextFileId - 1)
            /\ (pc[p] = "persist" /\ pc'[p] = "append") =>
                  /\ loc'[p].fileId \in DOMAIN files' \ DOMAIN files
                  /\ files'[loc'[p].fileId].data = loc[p].buffer
                  /\ clients' = clients
            /\ (pc[p] = "append" /\ pc'[p] = "done") => files' = files
       /\ (DOMAIN files' \ DOMAIN files # {}) =>
             \E q \in Procs : pc[q] = "persist" /\ pc'[q] = "append"
       /\ \A c \in ClientIds :
             clients'[c].documents # clients[c].documents =>
                \E q \in Procs :
                   /\ pc[q] = "append" /\ pc'[q] = "done" /\ req[q].clientId = c
                   /\ clients'[c].documents[Len(clients'[c].documents)].fileId
                         = loc[q].fileId]_vars

C25_Witness ==
    \E p \in Procs :
        /\ pc[p] = "append"
        /\ loc[p].nextVersion >= 1
        /\ loc[p].buffer # NoDoc
        /\ loc[p].fileId \in DOMAIN files
        /\ \A i \in 1..Len(Documents(req[p].clientId)) :
              Documents(req[p].clientId)[i].fileId # loc[p].fileId

IsPrefix(s, t) == Len(s) <= Len(t) /\ SubSeq(t, 1, Len(s)) = s

\* C26: every step of a generation request, of saveClientDocument, of
\* updateClient and of saveClientBranding leaves each client's history as it
\* was or extends it at the end: the history before the step is a prefix of
\* the history after it.
C26_AppendOnly ==
    [][\A c \in ClientIds : IsPrefix(clients[c].documents, clients'[c].documents)]_vars

C26_Witness ==
    \E c \in ClientIds :
        /\ Len(Documents(c)) = 2
        /\ Documents(c)[1].type = "text"
        /\ Documents(c)[2].type = "docx"
        /\ Truthy(clients[c].industry)
        /\ Truthy(clients[c].branding.primaryColor)

\* d has every field a generation writes
IsCompleteEntry(d) ==
    /\ DOMAIN d = {"name", "type", "fileId", "version", "content"}
    /\ d.type = "docx"
    /\ d.content = "Generated Business Plan"
    /\ d.fileId \in 1..(nextFileId - 1)
    /\ d.version >= 1
    /\ \E t \in Titles : d.name = VersionedTitle(t, d.version)

\* the places of the history entries that carry file id f
EntriesOf(f) ==
    {<<c, i>> \in ClientIds \X (1..nextFileId) :
        i <= Len(Documents(c)) /\ Documents(c)[i].fileId = f}

\* C27: under every interleaving of concurrent generation requests, every
\* entry a reader finds in a history has all its fields, no two entries
\* carry the same file id, and every request that reports success has
\* exactly one entry, in its client's history, with its file id, its version
\* and its display title: no append is lost or overwritten by another.
C27_AtomicAppend ==
    /\ \A c \in ClientIds :
          /\ Len(Documents(c)) < nextFileId
          /\ \A i \in 1..Len(Documents(c)) : IsCompleteEntry(Documents(c)[i])
    /\ \A f \in 1..(nextFileId - 1) : Cardinality(EntriesOf(f)) <= 1
    /\ \A p \in Procs :
          (pc[p] = "done" /\ IsSuccess(result[p])) =>
              LET f == UrlFileId(result[p].downloadUrl)
              IN /\ Cardinality(EntriesOf(f)) = 1
                 /\ \E i \in 1..Len(Documents(req[p].clientId)) :
                       LET d == Documents(req[p].clientId)[i]
                       IN /\ d.fileId = f
                          /\ d.version = result[p].version
                          /\ d.name = VersionedTitle(req[p].title, result[p].version)

C27_Witness ==
    \E p, q \in Procs :
        /\ p # q
        /\ pc[p] = "done" /\ IsSuccess(result[p]) /\ endedAt[p] = "append"
        /\ pc[q] = "done" /\ IsSuccess(result[q]) /\ endedAt[q] = "append"
        /\ req[p].clientId = req[q].clientId
        /\ Len(Documents(req[p].clientId)) = 2
        /\ Documents(req[p].clientId)[1].version = Documents(req[p].clientId)[2].version
        /\ Cardinality(EntriesOf(UrlFileId(result[p].downloadUrl))) = 1
        /\ Cardinality(EntriesOf(UrlFileId(result[q].downloadUrl))) = 1
        /\ UrlFileId(result[p].downloadUrl) # UrlFileId(result[q].downloadUrl)

\* d was added by saveClientDocument
IsUploaded(d) == d.fileId = 0 /\ d.type = "text"

\* C28: when a generation request reads a history in which the entries
\* whose name starts with the requested title are all uploads of
\* saveClientDocument, and there is at least one, it assigns version 2: the
\* uploaded entry counts as version 1 although nothing was generated for
\* that title.
C28_UploadsCountAsVersions ==
    [][\A p \in Procs :
          (pc[p] = "findClient" /\ pc'[p] = "encode") =>
              LET docs == clients[req[p].clientId].documents
                  hits == {i \in 1..Len(docs) : StartsWith(docs[i].name, req[p].title)}
              IN (hits # {} /\ \A i \in hits : IsUploaded(docs[i]))
                 => /\ loc'[p].nextVersion = 2
                    /\ loc'[p].versionedTitle
                          = req[p].title \o <<" ", "(", "v", "2", ")">>]_vars

C28_Witness ==
    \E p \in Procs :
        /\ pc[p] = "done" /\ IsSuccess(result[p])
        /\ req[p].title = <<"P", "l", "a", "n">>
        /\ result[p].version = 2
        /\ LET docs == Documents(req[p].clientId)
           IN /\ Len(docs) = 2
              /\ IsUploaded(docs[1]) /\ docs[1].name = <<"P", "l", "a", "n">>
              /\ ~IsUploaded(docs[2]) /\ docs[2].version = 2

\* the request has no session, or names a client of another user
IsUnauthorized(r) == r.session = NoSession \/ clients[r.clientId].userId # r.session

\* C29: a generation request without a user session, or for a client that
\* does not belong to the session's user, never gets past the ownership
\* check and never reports success, and no step it takes writes storage:
\* the artifacts and every client record stay as they were.
C29_UnauthorizedWritesNothing ==
    [][\A p \in Procs :
          (pc[p] # "idle" /\ IsUnauthorized(req[p])) =>
              /\ pc[p] \in {"session", "findClient", "done"}
              /\ loc[p] = NoLoc
              /\ ~IsSuccess(result[p])
              /\ pc'[p] # pc[p] =>
                    /\ pc'[p] \in {"findClient", "done", "idle"}
                    /\ files' = files
                    /\ nextFileId' = nextFileId
                    /\ clients' = clients]_vars

C29_Witness ==
    \E p, q \in Procs :
        /\ pc[p] = "done" /\ endedAt[p] = "findClient"
        /\ req[p].session # NoSession
        /\ clients[req[p].clientId].userId # req[p].session
        /\ result[p] = [error |-> "Client not found"]
        /\ pc[q] = "done" /\ endedAt[q] = "session"
        /\ result[q] = [error |-> "Unauthorized"]
        /\ files = <<>>
        /\ \A c \in ClientIds : Documents(c) = <<>>

\* the version that the history h alone gives to title t
VersionFrom(h, t) ==
    LET hits == {i \in 1..Len(h) : StartsWith(h[i].name, t)}
    IN IF hits = {} THEN 1
       ELSE 1 + MaxOf({IF h[i].version = 0 THEN 1 ELSE h[i].version : i \in hits})

\* C30: every step of a generation request for client A leaves every other
\* client's record and client A's branding, owner and details unchanged.
\* The persist step adds one artifact and changes nothing else in the
\* artifact store; the append step adds one entry at the end of client A's
\* history; no other step writes.  The version assigned at the read step is
\* the one client A's history alone gives to the title, whatever entries
\* with that title other clients hold.
C30_FrameOfGeneration ==
    [][\A p \in Procs :
          (pc[p] \notin {"idle", "done"} /\ pc'[p] # pc[p]) =>
              LET A == req[p].clientId
              IN /\ \A c \in ClientIds \ {A} : clients'[c] = clients[c]
                 /\ clients'[A].branding = clients[A].branding
                 /\ clients'[A].userId = clients[A].userId
                 /\ clients'[A].industry = clients[A].industry
                 /\ IF pc[p] = "append" /\ IsSuccess(result'[p])
                    THEN /\ Len(clients'[A].documents) = Len(clients[A].documents) + 1
                         /\ IsPrefix(clients[A].documents, clients'[A].documents)
                         /\ clients'[A].documents[Len(clients'[A].documents)].fileId
                               = loc[p].fileId
                    ELSE clients'[A].documents = clients[A].documents
                 /\ IF pc[p] = "persist" /\ pc'[p] = "append"
                    THEN /\ DOMAIN files' = DOMAIN files \cup {nextFileId}
                         /\ nextFileId \notin DOMAIN files
                         /\ \A f \in DOMAIN files : files'[f] = files[f]
                    ELSE files' = files
                 /\ (pc[p] = "findClient" /\ pc'[p] = "encode") =>
                       loc'[p].nextVersion = VersionFrom(clients[A].documents, req[p].title)
                 /\ users' = users]_vars

C30_Witness ==
    \E p \in Procs, A, B \in ClientIds :
        /\ A # B
        /\ pc[p] = "done" /\ IsSuccess(result[p]) /\ req[p].clientId = A
        /\ req[p].title = <<"P", "l", "a", "n">>
        /\ result[p].version = 1
        /\ Len(Documents(B)) = 1 /\ Len(Documents(A)) = 1
        /\ Documents(B)[1].name = <<"P", "l", "a", "n", " ", "(", "v", "1", ")">>
        /\ Documents(B)[1].fileId = 1
        /\ Documents(A)[1].name = Documents(B)[1].name
        /\ Documents(A)[1].fileId = 2
        /\ Truthy(clients[B].branding.primaryColor)
====
